---------------------------- MODULE Spec2Model ----------------------------
(***************************************************************************)
(* DN pro - SpO2 (E-based) alert engine: compute_table of src/app.py.      *)
(*                                                                         *)
(* The loop of compute_table is a state machine over (prev_e, low_streak,  *)
(* vlow_streak, hold_left, hold_reason); one action, Iterate, is one pass  *)
(* of the loop body for one sample, Return is the code after the loop.     *)
(*                                                                         *)
(* Numbers.  For an integer sample the reserve is E = (144 - d*d)/144 with *)
(* d = 0..12, and every threshold of the program has four decimals, so all *)
(* values the program compares are multiples of 1/90000 (lcm of 144 and    *)
(* 10000).  The model holds each of them as an exact integer count of      *)
(* UNIT = 1/90000.  The double arithmetic of the program differs from the  *)
(* exact value by about 1e-16, the tolerance EPS is 1e-9 and two different *)
(* grid values differ by at least 1.1e-5, so each comparison of the code   *)
(* has the truth value of the exact comparison on the grid.                *)
(***************************************************************************)
EXTENDS Integers, Sequences, FiniteSets, TLC

\* ------------------------------------------------------------------ bounds
\* Longest series the model walks through.
MaxLen == 10
\* Samples are ExtremeLow (below the clamp range) and MinRaw..MaxRaw.
MinRaw == 86
MaxRaw == 101
ExtremeLow == 40

Samples == {ExtremeLow} \cup (MinRaw..MaxRaw)

\* ------------------------------------------------------- locked parameters
GOOD_SPO2 == 100
BAD_SPO2 == 88
DENOM == GOOD_SPO2 - BAD_SPO2

\* Number of UNITs in 1.0: 90000, the least common multiple of DENOM*DENOM
\* (the denominator of every E) and 10000 (the denominator of the thresholds).
ONE == (DENOM * DENOM * 10000) \div 16

\* A four-decimal literal 0.dddd of the source, in UNITs.
Dec4(dddd) == dddd * (ONE \div 10000)

\* Mutation of S_DROP: a lower drop threshold.
S_DROP_Low == Dec4(2500)

S_DROP == Dec4(3000)
P_FLAT == Dec4(100)

E_RESET == Dec4(5556)
E_VLOW == Dec4(1597)
E_LOW_MAX == Dec4(4375)

N_VLOW == 3
N_LOW == 5

HOLD_VLOW == 5
HOLD_LOW == 3

\* 1e-9 is 0.00009 UNIT: below the resolution of the grid, on which
\* a <= b + EPS is a <= b and a >= b - EPS is a >= b.
EPS == ONE \div 1000000000

\* ---------------------------------------------------------------- helpers
Max(a, b) == IF a >= b THEN a ELSE b
Min(a, b) == IF a <= b THEN a ELSE b
Abs(a) == IF a >= 0 THEN a ELSE -a

\* Optional[float]: None is the empty tuple, a value v is <<v>>.
None == <<>>
Some(v) == <<v>>
Val(x) == x[1]

\* ------------------------------------------------------------- normalizer
clamp_spo2(x) == Max(50, Min(100, x))

\* Mutation of spo2_to_e: T is not clipped to [0, 1].
spo2_to_e_NoClip(spo2) ==
    LET s == clamp_spo2(spo2)
        t == GOOD_SPO2 - s
    IN  (DENOM * DENOM - t * t) * (ONE \div (DENOM * DENOM))

\* Mutation of spo2_to_e: T is measured from the bad reference instead of
\* the good one.
spo2_to_e_WrongRef(spo2) ==
    LET s == clamp_spo2(spo2)
        t0 == s - BAD_SPO2
        t == IF t0 < 0 THEN 0 ELSE IF t0 > DENOM THEN DENOM ELSE t0
    IN  (DENOM * DENOM - t * t) * (ONE \div (DENOM * DENOM))

\* T = clip((100 - SpO2)/12, 0, 1), E = 1 - T^2.  t is held as its numerator
\* over DENOM; the result is in UNITs.
spo2_to_e(spo2) ==
    LET s == clamp_spo2(spo2)
        t0 == GOOD_SPO2 - s
        t == IF t0 < 0 THEN 0 ELSE IF t0 > DENOM THEN DENOM ELSE t0
    IN  (DENOM * DENOM - t * t) * (ONE \div (DENOM * DENOM))


\* ------------------------------------------------------------ delta tracker
\* ve, drop and the first note of one pass, from e and prev_e.
Delta(e, prev) ==
    IF prev = None
    THEN [ve |-> None, drop |-> None, note_parts |-> <<"first sample">>]
    ELSE LET ve == e - Val(prev)
             drop == Max(0, -ve)
         IN  [ve |-> Some(ve), drop |-> Some(drop),
              note_parts |-> IF Abs(ve) <= P_FLAT + EPS
                             THEN <<"flat (|vE|<=p)">> ELSE <<>>]

\* Mutation of RowOut: the row stores the clamped sample instead of the raw
\* one.
RowOut_Clamped(minute, spo2, e, ve, drop, alert, reason, note) ==
    [minute |-> minute, spo2 |-> clamp_spo2(spo2), e |-> e, ve |-> ve,
     drop |-> drop, alert |-> alert, reason |-> reason, note |-> note]

\* RowOut(minute, spo2, e, ve, drop, alert, reason, note); note is kept as the
\* list of its parts, which "; ".join concatenates in this order.
RowOut(minute, spo2, e, ve, drop, alert, reason, note) ==
    [minute |-> minute, spo2 |-> spo2, e |-> e, ve |-> ve, drop |-> drop,
     alert |-> alert, reason |-> reason, note |-> note]

\* The loop-carried state of compute_table.
LoopState(prev, low, vlow, hold, hreason) ==
    [prev_e |-> prev, low_streak |-> low, vlow_streak |-> vlow,
     hold_left |-> hold, hold_reason |-> hreason]

\* ---------------------------------------------- Priority 1: LIMIT_E0 (E==0)
IsFloor(e) == e <= 0 + EPS

\* Mutation of FloorBranch: the streaks are cleared but the hold is left as
\* it was.
FloorBranch_KeepHold(st, i, raw, e, d) ==
    [st  |-> LoopState(Some(e), 0, 0, st.hold_left, st.hold_reason),
     row |-> RowOut(i, raw, e, d.ve, d.drop, "ON*", "LIMIT_E0", d.note_parts)]

\* Mutation of FloorBranch: the hold is cleared but the streaks are left as
\* they were.
FloorBranch_KeepStreaks(st, i, raw, e, d) ==
    [st  |-> LoopState(Some(e), st.low_streak, st.vlow_streak, 0, ""),
     row |-> RowOut(i, raw, e, d.ve, d.drop, "ON*", "LIMIT_E0", d.note_parts)]

\* The floor branch: all internal state reset, row ON* / LIMIT_E0, continue.
FloorBranch(st, i, raw, e, d) ==
    [st  |-> LoopState(Some(e), 0, 0, 0, ""),
     row |-> RowOut(i, raw, e, d.ve, d.drop, "ON*", "LIMIT_E0", d.note_parts)]

\* ------------------------------------------------- reset rule on recovery
\* m is the working copy of the pass: the four state variables, the notes,
\* and the decision locals alert, reason, triggered_now.
ResetRule(m, e) ==
    IF e >= E_RESET - EPS
    THEN [m EXCEPT !.low_streak = 0,
                   !.vlow_streak = 0,
                   !.hold_left = 0,
                   !.hold_reason = "",
                   !.note_parts =
                       (IF m.hold_left > 0
                        THEN Append(m.note_parts, "hold cancelled (E>=E_reset)")
                        ELSE m.note_parts) \o <<"reset (E>=E_reset)">>]
    ELSE m

\* Mutation of UpdateStreaks: the low-band comparison is inverted.
UpdateStreaks_Inverted(m, e) ==
    [m EXCEPT !.low_streak = IF e >= E_LOW_MAX + EPS THEN m.low_streak + 1 ELSE 0,
              !.vlow_streak = IF e <= E_VLOW + EPS THEN m.vlow_streak + 1 ELSE 0]

\* Mutation of UpdateStreaks: the band bounds are exclusive.
UpdateStreaks_Strict(m, e) ==
    [m EXCEPT !.low_streak = IF e < E_LOW_MAX THEN m.low_streak + 1 ELSE 0,
              !.vlow_streak = IF e < E_VLOW THEN m.vlow_streak + 1 ELSE 0]

\* Mutation of UpdateStreaks: a sample outside a band pauses the streak
\* instead of ending it.
UpdateStreaks_NoReset(m, e) ==
    [m EXCEPT !.low_streak = IF e <= E_LOW_MAX + EPS THEN m.low_streak + 1 ELSE @,
              !.vlow_streak = IF e <= E_VLOW + EPS THEN m.vlow_streak + 1 ELSE @]

\* --------------------------------------------------------- update streaks
UpdateStreaks(m, e) ==
    [m EXCEPT !.low_streak = IF e <= E_LOW_MAX + EPS THEN m.low_streak + 1 ELSE 0,
              !.vlow_streak = IF e <= E_VLOW + EPS THEN m.vlow_streak + 1 ELSE 0]

\* The optional "counting" note, read after the streak update.
CountingNote(m, e) ==
    IF e <= E_VLOW + EPS /\ m.vlow_streak < N_VLOW
    THEN [m EXCEPT !.note_parts = Append(@, "counting very-low persistence")]
    ELSE IF e > E_VLOW + EPS /\ e <= E_LOW_MAX + EPS /\ m.low_streak < N_LOW
    THEN [m EXCEPT !.note_parts = Append(@, "counting low persistence")]
    ELSE m

\* Mutation of EarlyOff: only the very-low hold is ended early.
EarlyOff_OnlyVeryLow(m, e) ==
    IF m.hold_left > 0 /\ m.hold_reason = "VERY_LOW_PERSIST" /\ e > E_VLOW + EPS
    THEN [m EXCEPT !.note_parts = Append(@, "hold ended early (E>very-low)"),
                   !.hold_left = 0, !.hold_reason = ""]
    ELSE m

\* ---------------------------- early OFF for hold if reserve leaves the band
EarlyOff(m, e) ==
    IF m.hold_left > 0
    THEN IF m.hold_reason = "VERY_LOW_PERSIST" /\ e > E_VLOW + EPS
         THEN [m EXCEPT !.note_parts = Append(@, "hold ended early (E>very-low)"),
                        !.hold_left = 0, !.hold_reason = ""]
         ELSE IF m.hold_reason = "LOW_PERSIST" /\ e > E_LOW_MAX + EPS
         THEN [m EXCEPT !.note_parts = Append(@, "hold ended early (E>low)"),
                        !.hold_left = 0, !.hold_reason = ""]
         ELSE m
    ELSE m

\* Mutation of Decide: a drop counts only while no low streak is running.
Decide_DropUnlessStreak(m, e, drop) ==
    IF drop # None /\ Val(drop) > S_DROP /\ m.low_streak = 0
    THEN [m EXCEPT !.alert = "ON", !.reason = "DROP_EVENT", !.triggered_now = TRUE]
    ELSE IF m.vlow_streak = N_VLOW
    THEN [m EXCEPT !.hold_left = HOLD_VLOW, !.hold_reason = "VERY_LOW_PERSIST",
                   !.alert = "ON", !.reason = "VERY_LOW_PERSIST",
                   !.triggered_now = TRUE]
    ELSE IF m.low_streak = N_LOW /\ e > E_VLOW + EPS
    THEN [m EXCEPT !.hold_left = HOLD_LOW, !.hold_reason = "LOW_PERSIST",
                   !.alert = "ON", !.reason = "LOW_PERSIST",
                   !.triggered_now = TRUE]
    ELSE [m EXCEPT !.alert = "OFF", !.reason = "NO_TRIGGER", !.triggered_now = FALSE]

\* Mutation of Decide: the persistence rules fire at or above the trigger
\* length instead of exactly at it.
Decide_AtLeast(m, e, drop) ==
    IF drop # None /\ Val(drop) > S_DROP
    THEN [m EXCEPT !.alert = "ON", !.reason = "DROP_EVENT", !.triggered_now = TRUE]
    ELSE IF m.vlow_streak >= N_VLOW
    THEN [m EXCEPT !.hold_left = HOLD_VLOW, !.hold_reason = "VERY_LOW_PERSIST",
                   !.alert = "ON", !.reason = "VERY_LOW_PERSIST",
                   !.triggered_now = TRUE]
    ELSE IF m.low_streak >= N_LOW /\ e > E_VLOW + EPS
    THEN [m EXCEPT !.hold_left = HOLD_LOW, !.hold_reason = "LOW_PERSIST",
                   !.alert = "ON", !.reason = "LOW_PERSIST",
                   !.triggered_now = TRUE]
    ELSE [m EXCEPT !.alert = "OFF", !.reason = "NO_TRIGGER", !.triggered_now = FALSE]

\* Mutation of Decide: the LOW_PERSIST trigger sets hold_left but not
\* hold_reason.
Decide_NoReason(m, e, drop) ==
    IF drop # None /\ Val(drop) > S_DROP
    THEN [m EXCEPT !.alert = "ON", !.reason = "DROP_EVENT", !.triggered_now = TRUE]
    ELSE IF m.vlow_streak = N_VLOW
    THEN [m EXCEPT !.hold_left = HOLD_VLOW, !.hold_reason = "VERY_LOW_PERSIST",
                   !.alert = "ON", !.reason = "VERY_LOW_PERSIST",
                   !.triggered_now = TRUE]
    ELSE IF m.low_streak = N_LOW /\ e > E_VLOW + EPS
    THEN [m EXCEPT !.hold_left = HOLD_LOW,
                   !.alert = "ON", !.reason = "LOW_PERSIST",
                   !.triggered_now = TRUE]
    ELSE [m EXCEPT !.alert = "OFF", !.reason = "NO_TRIGGER", !.triggered_now = FALSE]

\* ----------------------------------------------------- decide alert/reason
\* Starts from OFF / NO_TRIGGER / not triggered; priorities 2, 3, 4.
Decide(m, e, drop) ==
    IF drop # None /\ Val(drop) > S_DROP
    THEN [m EXCEPT !.alert = "ON", !.reason = "DROP_EVENT", !.triggered_now = TRUE]
    ELSE IF m.vlow_streak = N_VLOW
    THEN [m EXCEPT !.hold_left = HOLD_VLOW, !.hold_reason = "VERY_LOW_PERSIST",
                   !.alert = "ON", !.reason = "VERY_LOW_PERSIST",
                   !.triggered_now = TRUE]
    ELSE IF m.low_streak = N_LOW /\ e > E_VLOW + EPS
    THEN [m EXCEPT !.hold_left = HOLD_LOW, !.hold_reason = "LOW_PERSIST",
                   !.alert = "ON", !.reason = "LOW_PERSIST",
                   !.triggered_now = TRUE]
    ELSE [m EXCEPT !.alert = "OFF", !.reason = "NO_TRIGGER", !.triggered_now = FALSE]

\* f"holding ON ({hold_left} min left)"
HoldingNote(k) ==
    CASE k = 1 -> "holding ON (1 min left)"
      [] k = 2 -> "holding ON (2 min left)"
      [] k = 3 -> "holding ON (3 min left)"
      [] k = 4 -> "holding ON (4 min left)"
      [] OTHER -> "holding ON (5 min left)"

\* Mutation of HoldKeep: the held reason is reported but the alert is not
\* raised.
HoldKeep_NoAlert(m) ==
    IF ~m.triggered_now /\ m.hold_left > 0
    THEN [m EXCEPT !.reason = m.hold_reason,
                   !.note_parts = Append(@, HoldingNote(m.hold_left))]
    ELSE m

\* Mutation of HoldKeep: an active hold does not keep the alert ON.
HoldKeep_None(m) == m

\* If no new trigger, but hold active -> keep ON.
HoldKeep(m) ==
    IF ~m.triggered_now /\ m.hold_left > 0
    THEN [m EXCEPT !.alert = "ON", !.reason = m.hold_reason,
                   !.note_parts = Append(@, HoldingNote(m.hold_left))]
    ELSE m

\* Mutation of HoldDecrement: the pass that arms the hold does not count.
HoldDecrement_SkipTrigger(m) ==
    IF m.alert = "ON" /\ m.reason \in {"VERY_LOW_PERSIST", "LOW_PERSIST"}
       /\ m.hold_left > 0 /\ ~m.triggered_now
    THEN [m EXCEPT !.hold_left = @ - 1,
                   !.note_parts =
                       IF m.hold_left - 1 = 0
                       THEN Append(@, "hold completed -> next OFF unless retrigger")
                       ELSE @]
    ELSE m

\* If ON due to hold, decrement hold after emitting ON.
HoldDecrement(m) ==
    IF m.alert = "ON" /\ m.reason \in {"VERY_LOW_PERSIST", "LOW_PERSIST"}
       /\ m.hold_left > 0
    THEN [m EXCEPT !.hold_left = @ - 1,
                   !.note_parts =
                       IF m.hold_left - 1 = 0
                       THEN Append(@, "hold completed -> next OFF unless retrigger")
                       ELSE @]
    ELSE m

\* The part of the loop body after the floor test.
NormalBranch(st, i, raw, e, d) ==
    LET m0 == [low_streak |-> st.low_streak, vlow_streak |-> st.vlow_streak,
               hold_left |-> st.hold_left, hold_reason |-> st.hold_reason,
               note_parts |-> d.note_parts,
               alert |-> "OFF", reason |-> "NO_TRIGGER", triggered_now |-> FALSE]
        m1 == ResetRule(m0, e)
        m2 == UpdateStreaks(m1, e)
        m3 == CountingNote(m2, e)
        m4 == EarlyOff(m3, e)
        m5 == Decide(m4, e, d.drop)
        m6 == HoldKeep(m5)
        m7 == HoldDecrement(m6)
    IN  [st  |-> LoopState(Some(e), m7.low_streak, m7.vlow_streak,
                           m7.hold_left, m7.hold_reason),
         row |-> RowOut(i, raw, e, d.ve, d.drop, m7.alert, m7.reason, m7.note_parts)]

\* One pass of "for i, raw in enumerate(spo2_raw, start=1)": the new loop
\* state and the row appended.
LoopBody(st, i, raw) ==
    LET e == spo2_to_e(raw)
        d == Delta(e, st.prev_e)
    IN  IF IsFloor(e) THEN FloorBranch(st, i, raw, e, d)
                      ELSE NormalBranch(st, i, raw, e, d)

\* ------------------------------------------------------------ the data frame
\* round(4) of a value in UNITs, as a count of 1/10000.  No value of the grid
\* lies half-way between two four-decimal numbers (ONE/10000 = 9 is odd).
Round4(x) ==
    LET q == ONE \div 10000
    IN  IF x >= 0 THEN (x + q \div 2) \div q ELSE -((-x + q \div 2) \div q)

\* One record of the returned frame: E, vE, Drop rounded, columns renamed.
\* An absent vE / Drop stays absent.
DfRow(r) ==
    [Minute |-> r.minute, SpO2 |-> r.spo2, E |-> Round4(r.e),
     vE |-> IF r.ve = None THEN None ELSE Some(Round4(Val(r.ve))),
     Drop |-> IF r.drop = None THEN None ELSE Some(Round4(Val(r.drop))),
     Alert |-> r.alert, Reason |-> r.reason, Note |-> r.note]

\* The rows list after the whole loop over a series, from loop state st with
\* i samples already consumed.
RECURSIVE LoopRows(_, _, _)
LoopRows(st, i, rest) ==
    IF rest = <<>> THEN <<>>
    ELSE LET r == LoopBody(st, i + 1, Head(rest))
         IN  <<r.row>> \o LoopRows(r.st, i + 1, Tail(rest))

InitState == LoopState(None, 0, 0, 0, "")

\* compute_table as a function of its argument: the frame, one record per row.
compute_table(spo2_raw) ==
    LET rows == LoopRows(InitState, 0, spo2_raw)
    IN  [k \in 1..Len(rows) |-> DfRow(rows[k])]

\* ------------------------------------------------------------------- state
\* i, prev_e, low_streak, vlow_streak, hold_left, hold_reason: the variables
\* of compute_table.  The list rows is only appended to and never read by the
\* loop; the model keeps its length rows_n and its last element last_row
\* (None while the list is empty).  df is the returned frame, held the same
\* way (length and last record), None before the return.  pc is "loop" while
\* the for statement runs and "done" after the return.
VARIABLES i, prev_e, low_streak, vlow_streak, hold_left, hold_reason,
          rows_n, last_row, df, pc

\* History variables (not program state), updated by Iterate:
\*   before    the loop state at the start of the pass that just ran
\*   scen      k when the samples so far are the first k of Scenario, else -1
\*   cmax      k when the samples so far are k times raw 91, else -1
\*   low_run   number of consecutive most recent samples with raw in 89..91
\*   low_arms  passes of the current low_run in which LOW_PERSIST armed
\*   since_arm passes since LOW_PERSIST armed, while every later sample
\*             stayed in 89..91 with no floor or drop row; -1 otherwise or
\*             once the fourth pass after the arming is over
\*   low_cnt   number of consecutive most recent rows with 0 < E <= 0.4375
\*   vlow_cnt  number of consecutive most recent rows with 0 < E <= 0.1597
VARIABLES before, scen, cmax, low_run, low_arms, since_arm, low_cnt, vlow_cnt

\* The calls of compute_table with a known argument (specification SpecCalls):
\*   spo2_raw  the argument of the call
\*   rows      the list rows of the call, in full
\*   frame     the frame the call returned, in full; None before the return
\*   calls     number of calls started so far
\*   first     the frame the first call returned; None until a second call
\* Under Spec the argument is not fixed in advance (any sample may come next)
\* and these stay as Init sets them.
VARIABLES spo2_raw, rows, frame, calls, first

progvars == <<i, prev_e, low_streak, vlow_streak, hold_left, hold_reason,
              rows_n, last_row, df, pc>>
histvars == <<before, scen, cmax, low_run, low_arms, since_arm, low_cnt, vlow_cnt>>
callvars == <<spo2_raw, rows, frame, calls, first>>
vars == <<progvars, histvars, callvars>>

\* The loop state as one record.
Cur == LoopState(prev_e, low_streak, vlow_streak, hold_left, hold_reason)

\* The row of the pass that just ran.
Row == Val(last_row)

\* The scenario series of the specification.
Scenario == <<93, 91, 90, 89, 88, 89, 89, 91, 92>>

\* A pass armed a hold: hold_left was set to a hold length (and then counted
\* down once), so it ends positive and not below its value before the pass.
Armed(st0, st1) == st1.hold_left > 0 /\ st1.hold_left >= st0.hold_left

InitLocals ==
    /\ i = 0
    /\ prev_e = None
    /\ low_streak = 0
    /\ vlow_streak = 0
    /\ hold_left = 0
    /\ hold_reason = ""
    /\ rows_n = 0
    /\ last_row = None
    /\ df = None
    /\ pc = "loop"
    /\ before = InitState
    /\ scen = 0
    /\ cmax = 0
    /\ low_run = 0
    /\ low_arms = 0
    /\ since_arm = -1
    /\ low_cnt = 0
    /\ vlow_cnt = 0

Init ==
    /\ InitLocals
    /\ spo2_raw = <<>>
    /\ rows = <<>>
    /\ frame = None
    /\ calls = 1
    /\ first = None

\* The history variables after a pass over sample raw that took the loop
\* state from Cur to r.st and appended r.row.
History(raw, r) ==
    LET inband == raw \in 89..91
        armedLow == Armed(Cur, r.st) /\ r.st.hold_reason = "LOW_PERSIST"
    IN  /\ before' = Cur
        /\ scen' = IF scen = i /\ i < Len(Scenario) /\ raw = Scenario[i + 1]
                   THEN i + 1 ELSE -1
        /\ cmax' = IF cmax = i /\ raw = 91 THEN i + 1 ELSE -1
        /\ low_run' = IF inband THEN low_run + 1 ELSE 0
        /\ low_arms' = IF inband
                       THEN Min(2, low_arms + (IF armedLow THEN 1 ELSE 0))
                       ELSE 0
        /\ since_arm' = IF armedLow THEN 0
                        ELSE IF since_arm \in 0..2 /\ inband
                                /\ r.row.reason \notin {"LIMIT_E0", "DROP_EVENT"}
                        THEN since_arm + 1
                        ELSE -1
        /\ low_cnt' = IF 0 < r.row.e /\ r.row.e <= Dec4(4375)
                      THEN low_cnt + 1 ELSE 0
        /\ vlow_cnt' = IF 0 < r.row.e /\ r.row.e <= Dec4(1597)
                       THEN vlow_cnt + 1 ELSE 0

\* The effect of one pass of the for loop over sample raw on the variables of
\* the loop.
Pass(raw) ==
    LET r == LoopBody(Cur, i + 1, raw)
    IN  /\ i' = i + 1
        /\ prev_e' = r.st.prev_e
        /\ low_streak' = r.st.low_streak
        /\ vlow_streak' = r.st.vlow_streak
        /\ hold_left' = r.st.hold_left
        /\ hold_reason' = r.st.hold_reason
        /\ rows_n' = rows_n + 1
        /\ last_row' = Some(r.row)
        /\ History(raw, r)

\* One pass of the for loop, for the next sample raw of the series.
Iterate(raw) ==
    /\ pc = "loop"
    /\ i < MaxLen
    /\ Pass(raw)
    /\ UNCHANGED <<df, pc>>
    /\ UNCHANGED callvars

\* The series is exhausted: build the frame, round, rename, return.
Return ==
    /\ pc = "loop"
    /\ rows_n >= 1
    /\ df' = Some([n |-> rows_n, last |-> DfRow(Row)])
    /\ pc' = "done"
    /\ UNCHANGED <<i, prev_e, low_streak, vlow_streak, hold_left, hold_reason,
                   rows_n, last_row>>
    /\ UNCHANGED histvars
    /\ UNCHANGED callvars

Next ==
    \/ \E raw \in Samples : Iterate(raw)
    \/ Return

Spec == Init /\ [][Next]_vars

\* ------------------------------------------- calls with a known argument
\* Number of calls of compute_table in one behaviour of SpecCalls.
MaxCalls == 2

\* Every series of at most three samples, and every constant series of up to
\* MaxLen samples.
ShortSeries ==
    UNION {[1..n -> Samples] : n \in 1..3}
        \cup {[k \in 1..n |-> v] : v \in Samples, n \in 4..MaxLen}

\* The default series of main's text input.
DefaultLine == <<93, 91, 90, 89, 88, 89, 89, 91, 92, 89, 90, 91, 92, 91, 89, 90>>

\* The arguments compute_table is called with.
Inputs == ShortSeries \cup {Scenario, DefaultLine}

\* Mutation of EnterState: the streaks and the hold live on between calls.
EnterState_Carry(st) ==
    LoopState(None, st.low_streak, st.vlow_streak, st.hold_left, st.hold_reason)

\* The loop state compute_table starts from when entered while st is what the
\* previous call left behind: its variables are locals, set anew on entry.
EnterState(st) == InitState

InitCalls ==
    /\ InitLocals
    /\ spo2_raw \in Inputs
    /\ rows = <<>>
    /\ frame = None
    /\ calls = 1
    /\ first = None

\* One pass of the for loop over the next sample of the argument.
IterateArg ==
    /\ pc = "loop"
    /\ i < Len(spo2_raw)
    /\ Pass(spo2_raw[i + 1])
    /\ rows' = Append(rows, LoopBody(Cur, i + 1, spo2_raw[i + 1]).row)
    /\ UNCHANGED <<df, pc, spo2_raw, frame, calls, first>>

\* The argument is exhausted: build the frame, round, rename, return.
ReturnArg ==
    /\ pc = "loop"
    /\ i = Len(spo2_raw)
    /\ rows_n >= 1
    /\ df' = Some([n |-> rows_n, last |-> DfRow(Row)])
    /\ frame' = Some([k \in 1..Len(rows) |-> DfRow(rows[k])])
    /\ pc' = "done"
    /\ UNCHANGED <<i, prev_e, low_streak, vlow_streak, hold_left, hold_reason,
                   rows_n, last_row, rows, spo2_raw, calls, first>>
    /\ UNCHANGED histvars

\* compute_table is called again, with the same argument.
Call ==
    /\ pc = "done"
    /\ calls < MaxCalls
    /\ LET st == EnterState(Cur)
       IN  /\ prev_e' = st.prev_e
           /\ low_streak' = st.low_streak
           /\ vlow_streak' = st.vlow_streak
           /\ hold_left' = st.hold_left
           /\ hold_reason' = st.hold_reason
           /\ before' = st
    /\ i' = 0
    /\ rows_n' = 0
    /\ last_row' = None
    /\ rows' = <<>>
    /\ df' = None
    /\ frame' = None
    /\ pc' = "loop"
    /\ scen' = 0
    /\ cmax' = 0
    /\ low_run' = 0
    /\ low_arms' = 0
    /\ since_arm' = -1
    /\ low_cnt' = 0
    /\ vlow_cnt' = 0
    /\ calls' = calls + 1
    /\ first' = IF calls = 1 THEN frame ELSE first
    /\ UNCHANGED spo2_raw

NextCalls ==
    \/ IterateArg
    \/ ReturnArg
    \/ Call

SpecCalls == InitCalls /\ [][NextCalls]_vars

\* ------------------------------------------------------------ type invariant
TypeOK ==
    /\ i \in 0..MaxLen
    /\ rows_n = i
    /\ low_streak \in 0..MaxLen
    /\ vlow_streak \in 0..MaxLen
    /\ hold_left \in 0..HOLD_VLOW
    /\ hold_reason \in {"", "VERY_LOW_PERSIST", "LOW_PERSIST"}
    /\ pc \in {"loop", "done"}
    /\ (i = 0) = (last_row = None)
    /\ (i > 0 => /\ Row.minute = i
                 /\ Row.alert \in {"ON", "ON*", "OFF"}
                 /\ Some(Row.e) = prev_e
                 /\ Row.e \in 0..ONE)

\* ------------------------------------------------------------------ claims
\* "holding ON (k min left)" is among the parts of a note.
HasHoldingNote(note) ==
    \E k \in 1..Len(note) : note[k] \in {HoldingNote(j) : j \in 1..HOLD_VLOW}

\* C1: a pass whose raw sample is <= 88 (reserve 0) emits ON* / LIMIT_E0
\* whatever the streaks and the hold were before it, and leaves low_streak,
\* vlow_streak and hold_left at 0; ON* is emitted by no other pass.
C1_FloorTopPriority ==
    i > 0 =>
        /\ Row.spo2 <= 88 =>
              /\ Row.e = 0
              /\ Row.alert = "ON*" /\ Row.reason = "LIMIT_E0"
              /\ low_streak = 0 /\ vlow_streak = 0 /\ hold_left = 0
        /\ Row.alert = "ON*" => Row.spo2 <= 88

\* A floor pass that started with a running low streak and an active hold.
C1_Witness ==
    /\ i > 0
    /\ Row.spo2 <= 88 /\ Row.alert = "ON*"
    /\ before.low_streak > 0 /\ before.hold_left > 0

\* C2: on a pass that is not the first and not at the floor, a deterioration
\* max(0, previous E - current E) above 0.30 gives ON / DROP_EVENT, whatever
\* the streaks and the hold are.
C2_DropOutranks ==
    (i > 1 /\ Row.e > 0 /\ Max(0, Val(before.prev_e) - Row.e) > Dec4(3000))
        => Row.alert = "ON" /\ Row.reason = "DROP_EVENT"

\* A drop row on a pass that also started a low streak.
C2_Witness ==
    /\ i > 1
    /\ Row.reason = "DROP_EVENT"
    /\ Max(0, Val(before.prev_e) - Row.e) > Dec4(3000)
    /\ low_streak = 1

\* C3: a persistence rule arms its hold only on the pass on which its streak
\* becomes exactly the trigger length (5 for LOW_PERSIST, 3 for
\* VERY_LOW_PERSIST), and at most once in one unbroken in-band run, also
\* after the hold has run out.
C3_ExactHit ==
    i > 0 =>
        /\ (Armed(before, Cur) /\ hold_reason = "LOW_PERSIST")
              => low_streak = 5 /\ before.low_streak = 4 /\ low_run = 5
        /\ (Armed(before, Cur) /\ hold_reason = "VERY_LOW_PERSIST")
              => vlow_streak = 3 /\ before.vlow_streak = 2
        /\ Armed(before, Cur) => Row.alert = "ON" /\ Row.reason = hold_reason
        /\ low_arms <= 1

\* A run that went on after its hold ran out: armed once, streak still rising.
C3_Witness ==
    /\ low_run >= 9 /\ low_streak >= 9
    /\ low_arms = 1
    /\ hold_left = 0
    /\ ~Armed(before, Cur)

\* C4: after LOW_PERSIST arms at pass t, while the samples stay in 89..91 and
\* no floor or drop row occurs, passes t, t+1, t+2 are ON / LOW_PERSIST with
\* hold_left 2, 1, 0 after them, and pass t+3 is OFF / NO_TRIGGER.
C4_HoldDuration ==
    /\ since_arm \in 0..2 =>
          /\ Row.alert = "ON" /\ Row.reason = "LOW_PERSIST"
          /\ hold_left = 2 - since_arm
          /\ since_arm > 0 => hold_left = before.hold_left - 1
    /\ since_arm = 3 =>
          /\ Row.alert = "OFF" /\ Row.reason = "NO_TRIGGER"
          /\ hold_left = 0

\* The pass t+3 of an in-band run: the first OFF row after the hold.
C4_Witness ==
    /\ since_arm = 3
    /\ Row.alert = "OFF"
    /\ low_streak = 8

\* C5: a pass that starts with an active hold and whose reserve is outside
\* the band that armed it (E > 0.4375 for LOW_PERSIST, E > 0.1597 for
\* VERY_LOW_PERSIST) or at or above 0.5556 ends with hold_left = 0, and its
\* row does not carry the cancelled hold's reason unless that rule newly
\* triggered on this pass.
C5_EarlyCancel ==
    (/\ i > 0
     /\ before.hold_left > 0
     /\ \/ before.hold_reason = "LOW_PERSIST" /\ Row.e > Dec4(4375)
        \/ before.hold_reason = "VERY_LOW_PERSIST" /\ Row.e > Dec4(1597)
        \/ Row.e >= Dec4(5556))
        => /\ hold_left = 0
           /\ Row.reason = before.hold_reason
                 => Row.alert = "ON" /\ ~HasHoldingNote(Row.note)

\* A hold cancelled by a sample that left the low band without recovering.
C5_Witness ==
    /\ i > 0
    /\ before.hold_left > 0 /\ before.hold_reason = "LOW_PERSIST"
    /\ Row.e > Dec4(4375) /\ Row.e < Dec4(5556)
    /\ hold_left = 0 /\ Row.alert = "OFF"

\* C6: after a pass with E >= 0.5556 both streaks and hold_left are 0, the
\* row is OFF / NO_TRIGGER unless floor or drop fired on it, and it is never
\* ON for LOW_PERSIST or VERY_LOW_PERSIST.
C6_Recovery ==
    (i > 0 /\ Row.e >= Dec4(5556)) =>
        /\ low_streak = 0 /\ vlow_streak = 0 /\ hold_left = 0
        /\ Row.reason \notin {"LIMIT_E0", "DROP_EVENT"}
              => Row.alert = "OFF" /\ Row.reason = "NO_TRIGGER"
        /\ Row.reason \notin {"LOW_PERSIST", "VERY_LOW_PERSIST"}

\* A recovering pass directly after an active hold, with an OFF row.
C6_Witness ==
    /\ i > 0
    /\ Row.e >= Dec4(5556)
    /\ before.hold_left > 0
    /\ Row.alert = "OFF" /\ hold_left = 0

\* C7: for the series 93,91,90,89,88,89,89,91,92, pass 5 (raw 88) has
\* reserve 0 and row ON* / LIMIT_E0, and no later row is ON or ON*.
C7_ScenarioFloor ==
    /\ scen = 5 => /\ Row.spo2 = 88 /\ Row.e = 0
                   /\ Row.alert = "ON*" /\ Row.reason = "LIMIT_E0"
    /\ scen \in 6..9 => Row.alert = "OFF"

\* The whole scenario series has been consumed.
C7_Witness ==
    /\ scen = Len(Scenario)
    /\ i = 9 /\ Row.spo2 = 92 /\ Row.alert = "OFF"

\* C8: raw 89 lies in the very-low band, so pass 6 of the scenario series
\* (raw 89, right after the floor pass) starts a very-low streak of 1.
C8_Raw89StartsVeryLowStreak ==
    scen = 6 => /\ Row.spo2 = 89
                /\ Row.e <= Dec4(1597)
                /\ vlow_streak = 1

\* C9: a series of samples at raw 91 (E = 0.4375, none in the very-low band)
\* from the start: rows 1 to 4 are OFF, row 5 is ON / LOW_PERSIST and arms the
\* hold, and the hold is armed once only however long the series goes on.
C9_CautionAtBoundary ==
    /\ cmax >= 1 => /\ Row.e = Dec4(4375)
                    /\ vlow_streak = 0
    /\ cmax \in 1..4 => /\ Row.alert = "OFF" /\ Row.reason = "NO_TRIGGER"
                        /\ hold_left = 0 /\ low_arms = 0
    /\ cmax = 5 => /\ Row.alert = "ON" /\ Row.reason = "LOW_PERSIST"
                   /\ Armed(before, Cur) /\ hold_reason = "LOW_PERSIST"
    /\ cmax >= 5 => low_arms = 1
    /\ cmax > 5 => ~Armed(before, Cur)

\* Nine samples at raw 91: triggered at the fifth, not again since.
C9_Witness ==
    /\ cmax = 9
    /\ low_arms = 1
    /\ Row.alert = "OFF"

\* The reason codes the program documents.
ReasonCodes ==
    {"LIMIT_E0", "DROP_EVENT", "VERY_LOW_PERSIST", "LOW_PERSIST", "NO_TRIGGER"}

\* The reasons in the frame compute_table returns for a series.
ReasonsOf(series) ==
    LET t == compute_table(series) IN {t[k].Reason : k \in 1..Len(series)}

\* C10: every documented reason code is produced for some series of integer
\* samples; in particular some series makes the very-low streak hit 3 and
\* gives a row ON / VERY_LOW_PERSIST.
C10_EveryReasonProduced ==
    i = 0 => \A reason \in ReasonCodes :
                 \E series \in ShortSeries : reason \in ReasonsOf(series)

\* Every reason code but VERY_LOW_PERSIST is produced for a short series.
OtherReasonsProduced ==
    i = 0 => \A reason \in ReasonCodes \ {"VERY_LOW_PERSIST"} :
                 \E series \in ShortSeries : reason \in ReasonsOf(series)

\* No integer sample is in the very-low band: the reserve of raw 89 is
\* 23/144 = 0.15972..., above E_VLOW = 0.1597, and raw 88 is the floor.  So
\* the very-low streak never leaves 0 and no VERY_LOW_PERSIST hold exists.
VeryLowNeverCounts ==
    /\ vlow_streak = 0
    /\ hold_reason # "VERY_LOW_PERSIST"
    /\ i > 0 => Row.reason # "VERY_LOW_PERSIST"

\* C11: compute_table emits one row per input sample, in input order: the
\* number of rows is the number of samples consumed, row k has minute k and
\* the k-th sample, on the floor path and on the normal path, and so has the
\* returned frame.
C11_OneRowPerSample ==
    /\ Len(rows) = i /\ rows_n = i
    /\ \A k \in 1..Len(rows) :
           rows[k].minute = k /\ rows[k].spo2 = spo2_raw[k]
    /\ pc = "done" =>
           /\ frame # None
           /\ Len(Val(frame)) = Len(spo2_raw)
           /\ \A k \in 1..Len(spo2_raw) :
                  Val(frame)[k].Minute = k /\ Val(frame)[k].SpO2 = spo2_raw[k]

\* The returned frame of the sixteen-sample default series, with rows of the
\* floor path and rows of the normal path.
C11_Witness ==
    /\ pc = "done" /\ Len(spo2_raw) = 16 /\ Len(Val(frame)) = 16
    /\ \E k \in 1..Len(rows) : rows[k].reason = "LIMIT_E0"
    /\ \E k \in 1..Len(rows) : rows[k].reason = "NO_TRIGGER"

\* A returned frame whose samples lie outside the clamp range 50..100.
ClampedInputReturned ==
    /\ pc = "done"
    /\ \E k \in 1..Len(rows) : spo2_raw[k] < 50
    /\ \E k \in 1..Len(rows) : spo2_raw[k] > 100

\* C12: the reserve of every sample <= 88 is exactly 0, of every sample
\* >= 100 exactly 1, and every reserve lies in [0, 1].
C12_Saturation ==
    \A k \in 1..Len(rows) :
        /\ spo2_raw[k] <= 88 => rows[k].e = 0
        /\ spo2_raw[k] >= 100 => rows[k].e = 90000
        /\ 0 <= rows[k].e /\ rows[k].e <= 90000

\* A series with a sample below the clamp range, one above it and one inside
\* the open interval.
C12_Witness ==
    /\ Len(rows) = 3
    /\ spo2_raw[1] < 50 /\ rows[1].e = 0
    /\ spo2_raw[2] > 100 /\ rows[2].e = 90000
    /\ rows[3].e > 0 /\ rows[3].e < 90000

\* C13: for two samples a <= b of a series, reserve(a) <= reserve(b).
C13_Monotone ==
    \A j, k \in 1..Len(rows) :
        spo2_raw[j] <= spo2_raw[k] => rows[j].e <= rows[k].e

\* Two samples with strictly increasing reserve, and two different samples
\* with the same reserve.
C13_Witness ==
    /\ Len(rows) = 3
    /\ spo2_raw[1] < spo2_raw[2] /\ rows[1].e < rows[2].e
    /\ spo2_raw[2] < spo2_raw[3] /\ rows[2].e = rows[3].e

\* C14: every call starts with prev_e unset, both streaks and the hold at 0
\* and an empty rows list, whatever the call before left behind, and a second
\* call with the same argument returns the same frame as the first.
C14_NoHiddenState ==
    /\ (pc = "loop" /\ i = 0) =>
           /\ prev_e = None
           /\ low_streak = 0 /\ vlow_streak = 0
           /\ hold_left = 0 /\ hold_reason = ""
           /\ rows = <<>>
    /\ (pc = "done" /\ calls >= 2) =>
           /\ first # None
           /\ frame = first

\* A second call returned, and each call ended inside a running hold.
C14_Witness ==
    /\ pc = "done" /\ calls = 2
    /\ frame = first
    /\ hold_left > 0 /\ low_streak >= 5

\* C15: after every pass low_streak is the number of consecutive most recent
\* passes with 0 < E <= 0.4375 and vlow_streak the number with
\* 0 < E <= 0.1597; so a counter is positive iff the current reserve is in its
\* band, and 0 when the reserve is outside it, at the floor or >= 0.5556.
C15_StreakIsRunLength ==
    /\ low_streak = low_cnt
    /\ vlow_streak = vlow_cnt
    /\ i > 0 =>
        /\ (low_streak > 0) = (0 < Row.e /\ Row.e <= Dec4(4375))
        /\ (vlow_streak > 0) = (0 < Row.e /\ Row.e <= Dec4(1597))
        /\ (Row.e = 0 \/ Row.e >= Dec4(5556)) => low_streak = 0 /\ vlow_streak = 0

\* A run of three in-band passes that began at the fifth pass of the series.
C15_Witness ==
    /\ i = 7 /\ low_streak = 3 /\ low_cnt = 3
    /\ before.low_streak = 2
    /\ Row.e > 0 /\ Row.e <= Dec4(4375)

\* C16: hold_left > 0 implies hold_reason is VERY_LOW_PERSIST or LOW_PERSIST,
\* and 0 <= hold_left <= 5.
C16_HoldState ==
    /\ hold_left > 0 => hold_reason \in {"VERY_LOW_PERSIST", "LOW_PERSIST"}
    /\ 0 <= hold_left /\ hold_left <= 5

\* An active hold.
C16_Witness ==
    /\ hold_left > 0
    /\ hold_reason = "LOW_PERSIST"
    /\ Row.alert = "ON"

\* A part of a note.
HasNote(note, part) == \E k \in 1..Len(note) : note[k] = part

\* C17: raw 92 satisfies E >= E_RESET within EPS, so a pass with raw 92 takes
\* the recovery-reset branch and is annotated as reset.
C17_Raw92Resets ==
    (i > 0 /\ Row.spo2 = 92) =>
        /\ Row.e >= Dec4(5556)
        /\ HasNote(Row.note, "reset (E>=E_reset)")

\* C18: in every row, alert is ON* iff reason is LIMIT_E0, OFF iff NO_TRIGGER,
\* ON iff reason is DROP_EVENT, VERY_LOW_PERSIST or LOW_PERSIST; the reason is
\* never empty.
C18_AlertReason ==
    i > 0 =>
        /\ (Row.alert = "ON*") = (Row.reason = "LIMIT_E0")
        /\ (Row.alert = "OFF") = (Row.reason = "NO_TRIGGER")
        /\ (Row.alert = "ON") =
               (Row.reason \in {"DROP_EVENT", "VERY_LOW_PERSIST", "LOW_PERSIST"})
        /\ Row.reason # ""
        /\ Row.alert \in {"ON", "ON*", "OFF"}

\* A row that is ON because a hold is kept.
C18_Witness ==
    /\ i > 0
    /\ Row.alert = "ON" /\ Row.reason = "LOW_PERSIST"
    /\ HasHoldingNote(Row.note)

\* C19: a row is ON / LOW_PERSIST iff its pass is the 5th, 6th or 7th of a
\* maximal run of samples with raw in 89..91; from the 8th pass on the run
\* is OFF.
C19_LowPersistStateless ==
    i > 0 =>
        /\ (Row.alert = "ON" /\ Row.reason = "LOW_PERSIST") = (low_run \in 5..7)
        /\ Row.reason = "LOW_PERSIST" => Row.alert = "ON"
        /\ low_run >= 8 => Row.alert = "OFF"

\* The ninth pass of a run, OFF, in a series that began outside the band.
C19_Witness ==
    /\ i = 10 /\ low_run = 9
    /\ Row.alert = "OFF"
    /\ hold_left = 0

\* C20: on every pass whose row is DROP_EVENT, low_streak <= 1 and
\* vlow_streak <= 1 after the pass, and hold_left is 0 before and after it.
C20_DropNeverMasks ==
    (i > 0 /\ Row.reason = "DROP_EVENT") =>
        /\ low_streak <= 1 /\ vlow_streak <= 1
        /\ before.hold_left = 0 /\ hold_left = 0

\* A drop into the low band: the streak it starts is 1.
C20_Witness ==
    /\ i > 1
    /\ Row.reason = "DROP_EVENT"
    /\ low_streak = 1
    /\ before.low_streak = 0 /\ before.hold_left = 0

=============================================================================
